---- MODULE Spec2Model ----
(***************************************************************************)
(* The game session engine of the chat word-inference game (src/main.py):  *)
(* the room registry, the per-room daily ledger, the session object, the   *)
(* hint timer task and the handlers that run as concurrent asyncio tasks   *)
(* (Application.concurrent_updates(True)).  One action is the code a       *)
(* handler runs between two awaits; an await is a position (pc) of the     *)
(* task.  Points are counted in tenths of a point, elapsed times handed    *)
(* to calculate_points in hundredths of a second.                          *)
(***************************************************************************)
EXTENDS Integers, Sequences, FiniteSets, TLC

(* ---------------------------------------------------------------- bounds *)
NumUsers == 3
NumChats == 2
\* Menu selections delivered and task slots, where start requests compete.
MaxClicks == 3
MaxTasks == 3
\* The same, where one session is followed: its timer and one handler.
SessionClicks == 1
SessionTasks == 2
\* Guesses delivered per user.
FewGuesses == 1
MaxGuesses == 2
RunGuesses == 3
MaxStops == 1
\* Menu selections delivered where a game follows a stopped one.
RestartClicks == 2
\* Menu selections delivered, and task slots, where selections pile up.
CountClicks == 4
MaxResets == 1
MaxFailures == 1
\* Seconds of a hint window the clock is followed for.
MaxAge == 3
\* Streaks handed to calculate_points on its own.
MaxStreak == 4
\* Entries of a ranked point map, and the length up to which three different
\* point values are tried.
MaxBoard == 11
ShortBoard == 5

(* ------------------------------------------------------ program constants *)
MAX_HINTS == 5
FAST_FINGER_BONUS_SECONDS == 5
STEAL_WINDOW_SECONDS == 2

Users == 1..NumUsers
Chats == 1..NumChats

\* The question counts the selection menu offers (callback data game_3,
\* game_5, game_10); with a bank of fewer than five words 10 behaves as 5.
GameSizes == {3, 5}

\* member.status values get_chat_member can return.
MemberStatuses == {"creator", "administrator", "member"}

(* ------------------------------------------------------------------ text *)
\* A text is a sequence of characters; str.lower() and str.strip() act on it
\* character by character.
LowerChar(ch) ==
  CASE ch = "A" -> "a"
    [] ch = "B" -> "b"
    [] ch = "C" -> "c"
    [] ch = "D" -> "d"
    [] ch = "E" -> "e"
    [] ch = "F" -> "f"
    [] OTHER -> ch

Lower(s) == [i \in DOMAIN s |-> LowerChar(s[i])]

RECURSIVE StripLeft(_)
StripLeft(s) ==
  IF s # <<>> /\ Head(s) = " " THEN StripLeft(Tail(s)) ELSE s

RECURSIVE StripRight(_)
StripRight(s) ==
  IF s # <<>> /\ s[Len(s)] = " " THEN StripRight(SubSeq(s, 1, Len(s) - 1)) ELSE s

Strip(s) == StripRight(StripLeft(s))

\* Question files load_questions may have read: the word of each record
\* (category and hint texts are only printed).  Nothing in the loader makes
\* the words distinct: in SmallBank questions 1 and 2 differ in case only.
SmallBank == << <<"A", "b">>, <<"a", "b">>, <<"c", "d">> >>

ThreeWordBank == << <<"A", "b">>, <<"c", "d">>, <<"e", "f">> >>

FourWordBank == << <<"A", "b">>, <<"c", "d">>, <<"e", "f">>, <<"g", "h">> >>

NoQuestion == 0

\* The message texts users send.
MessageTexts ==
  { <<" ", "A", "B", " ">>, <<"c", "d">>, <<"e", "f">> }

(* ------------------------------------------------------------ dictionaries *)
\* A dict whose iteration order is read (the two leaderboards are sorted with
\* a stable sort) is a sequence of <<key, value>> in insertion order; the
\* other dicts are functions on their key set.
EmptyMap == [x \in {} |-> 0]

Keys(d) == {d[i][1] : i \in DOMAIN d}

Get(d, k, default) ==
  IF k \in Keys(d) THEN d[CHOOSE i \in DOMAIN d : d[i][1] = k][2] ELSE default

Put(d, k, v) ==
  IF k \in Keys(d)
  THEN [i \in DOMAIN d |-> IF d[i][1] = k THEN <<k, v>> ELSE d[i]]
  ELSE Append(d, <<k, v>>)

FGet(f, k, default) == IF k \in DOMAIN f THEN f[k] ELSE default

FPut(f, k, v) == [x \in DOMAIN f \cup {k} |-> IF x = k THEN v ELSE f[x]]

\* A sort that puts a later entry before the earlier entries of equal points
\* (C14 must tell it apart).
RECURSIVE InsertBeforeTies(_, _)
InsertBeforeTies(x, s) ==
  IF s = <<>> THEN <<x>>
  ELSE IF s[1][2] < x[2] THEN <<x>> \o s
  ELSE <<s[1]>> \o InsertBeforeTies(x, Tail(s))

\* sorted(items, key=points, reverse=True): descending and stable.
RECURSIVE InsertDesc(_, _)
InsertDesc(x, s) ==
  IF s = <<>> THEN <<x>>
  ELSE IF s[1][2] <= x[2] THEN <<x>> \o s
  ELSE <<s[1]>> \o InsertDesc(x, Tail(s))

RECURSIVE SortedPlayers(_)
SortedPlayers(d) ==
  IF d = <<>> THEN <<>> ELSE InsertDesc(Head(d), SortedPlayers(Tail(d)))

\* sorted(...)[:n]
Top(d, n) == SubSeq(SortedPlayers(d), 1, IF Len(d) < n THEN Len(d) ELSE n)

\* The entries each leaderboard message lists: show_game_leaderboard (first
\* 5 of the game's points), leaderboard_command (first 10 of the day's
\* points) and end_game (first 3 of the game's points, the first of them
\* named the winner).
LeaderboardView(view, d) ==
  CASE view = "game" -> Top(d, 5)
    [] view = "daily" -> Top(d, 10)
    [] view = "final" -> SubSeq(SortedPlayers(d), 1, IF Len(d) < 3 THEN Len(d) ELSE 3)

Winner(d) == SortedPlayers(d)[1]

(* ----------------------------------------------------------------- scoring *)
\* A table that pays one point less for the second hint (C6 must tell it
\* apart).
SteeperTable(hint_number) ==
  CASE hint_number = 1 -> 10
    [] hint_number = 2 -> 7
    [] hint_number = 3 -> 6
    [] hint_number = 4 -> 4
    [] hint_number = 5 -> 2
    [] OTHER -> 0

\* A score without the streak multiplier (C7 must tell it apart).
PointsWithoutStreak(hint_number, time_taken, streak) ==
  10 * (SteeperTable(hint_number) + (IF time_taken <= 500 THEN 1 ELSE 0))

BASE_POINTS(hint_number) ==
  CASE hint_number = 1 -> 10
    [] hint_number = 2 -> 8
    [] hint_number = 3 -> 6
    [] hint_number = 4 -> 4
    [] hint_number = 5 -> 2
    [] OTHER -> 0

\* calculate_points, in tenths of a point; time_taken in hundredths of a
\* second.  The multiplier 1.0 / 1.1 / 1.2 is 10 / 11 / 12 tenths.
calculate_points(hint_number, time_taken, streak) ==
  LET base == BASE_POINTS(hint_number)
              + (IF time_taken <= FAST_FINGER_BONUS_SECONDS * 100 THEN 1 ELSE 0)
      multiplier == IF streak >= 3 THEN 12 ELSE IF streak >= 2 THEN 11 ELSE 10
  IN base * multiplier

(* -------------------------------------------------------------- similarity *)
\* difflib.SequenceMatcher(None, a, b): the longest matching block that starts
\* earliest in a, then earliest in b, and recursively the blocks left and right
\* of it.  Index ranges are half open, [lo, hi).
RECURSIVE RunLen(_, _, _, _, _, _)
RunLen(a, b, i, j, ahi, bhi) ==
  IF i < ahi /\ j < bhi /\ a[i] = b[j]
  THEN 1 + RunLen(a, b, i + 1, j + 1, ahi, bhi)
  ELSE 0

find_longest_match(a, b, alo, ahi, blo, bhi) ==
  LET cands == (alo..(ahi - 1)) \X (blo..(bhi - 1))
      len(p) == RunLen(a, b, p[1], p[2], ahi, bhi)
  IN IF \A p \in cands : len(p) = 0 THEN <<alo, blo, 0>>
     ELSE LET best == CHOOSE k \in 1..Len(a) :
                        /\ \E p \in cands : len(p) = k
                        /\ \A p \in cands : len(p) <= k
              bi == CHOOSE i \in alo..(ahi - 1) :
                      /\ \E p \in cands : p[1] = i /\ len(p) = best
                      /\ \A p \in cands : len(p) = best => i <= p[1]
              bj == CHOOSE j \in blo..(bhi - 1) :
                      /\ len(<<bi, j>>) = best
                      /\ \A p \in cands : (p[1] = bi /\ len(p) = best) => j <= p[2]
          IN <<bi, bj, best>>

RECURSIVE MatchingSize(_, _, _, _, _, _)
MatchingSize(a, b, alo, ahi, blo, bhi) ==
  LET m == find_longest_match(a, b, alo, ahi, blo, bhi)
  IN IF m[3] = 0 THEN 0
     ELSE m[3] + MatchingSize(a, b, alo, m[1], blo, m[2])
               + MatchingSize(a, b, m[1] + m[3], ahi, m[2] + m[3], bhi)

\* NEAR_MISS_THRESHOLD = 0.75 as the fraction 3/4.
NEAR_MISS_NUM == 3
NEAR_MISS_DEN == 4

\* is_near_miss: ratio() = 2.0 * matches / (len(a) + len(b)), 1.0 for two
\* empty strings, compared with the threshold.
is_near_miss(guess, answer) ==
  LET a == Lower(guess)
      b == Lower(answer)
      total == Len(a) + Len(b)
      matches == MatchingSize(a, b, 1, Len(a) + 1, 1, Len(b) + 1)
  IN IF total = 0 THEN TRUE
     ELSE 2 * matches * NEAR_MISS_DEN >= NEAR_MISS_NUM * total

(* ------------------------------------------------------------------- state *)
VARIABLES
  questions,      \* game_state.questions, loaded once at startup
  env,            \* how many events of each kind the surroundings deliver
  stops,          \* stop commands that removed a game
  menus,          \* chats holding a selection menu posted by play_command
  active_games,   \* game_state.active_games: chat -> game object
  games,          \* the ActiveGame objects ever created, by identity
  daily_data,     \* game_state.daily_data: chat -> DailyData
  tasks,          \* the asyncio tasks: handlers in flight and hint timers
  reset_pc,       \* position of the daily_reset job
  clicks,         \* menu selections delivered
  msgs,           \* per user: text messages evaluated as guesses
  resets,         \* daily resets run
  failures,       \* outbound Bot API calls that raised
  guess_log,      \* per game object: the guesses evaluated against it
  steals_today,   \* per user: steals performed since the last ledger reset
  completions,    \* per game object: the "GAME COMPLETE" message sent for it
  calc            \* scoring-policy harness: arguments and result

vars ==
  <<questions, env, stops, menus, active_games, games, daily_data, tasks, reset_pc, clicks,
    msgs, resets, failures, guess_log, steals_today, completions, calc>>

\* update.effective_chat.type: the chats of env.groups are groups, every
\* other chat is a direct chat with the bot.
ChatType(c) == IF c \in env.groups THEN "group" ELSE "private"

\* The slots of the task table.
TaskIds == DOMAIN tasks

NoTime == -1
NoTask == 0
FinishedTask == -1
NoGame == 0

\* ActiveGame.__init__ (hint_message_id is only handed back to the Bot API).
\* The code reads the clock only in the differences now - hint_start_time and
\* now - wrong_time, so the game keeps the seconds elapsed since each stamp:
\* hint_elapsed (NoTime while hint_start_time is None) and, in wrong_guessers,
\* <<user, seconds since the guess>>.
ActiveGame(group_id, total_questions) ==
  [ group_id             |-> group_id,
    total_questions      |-> total_questions,
    current_question_num |-> 0,
    current_question     |-> NoQuestion,
    current_hint         |-> 0,
    hint_elapsed         |-> NoTime,
    answered             |-> FALSE,
    first_messages       |-> {},
    category_revealed    |-> FALSE,
    wrong_guessers       |-> <<>>,
    near_miss_shown      |-> {},
    timer_task           |-> NoTask,
    game_leaderboard     |-> <<>> ]

\* DailyData.__init__
DailyData ==
  [ used_words         |-> {},
    leaderboard        |-> <<>>,
    streaks            |-> EmptyMap,
    steal_used         |-> EmptyMap,
    fastest_guesses    |-> EmptyMap,
    total_correct      |-> EmptyMap,
    user_names         |-> EmptyMap,
    milestones_reached |-> EmptyMap ]

\* DailyData.reset: every container but user_names is cleared.
DailyDataReset(d) ==
  [ d EXCEPT !.used_words = {},
             !.leaderboard = <<>>,
             !.streaks = EmptyMap,
             !.steal_used = EmptyMap,
             !.fastest_guesses = EmptyMap,
             !.total_correct = EmptyMap,
             !.milestones_reached = EmptyMap ]

\* update.effective_user.first_name
FirstName(u) == u

\* A task: its position and the locals its continuation reads.
FreeTask ==
  [ pc |-> "free", chat |-> 0, game |-> NoGame, user |-> 0, n |-> 0,
    total_points |-> 0, ms |-> 0, winner |-> 0, winner_points |-> 0 ]

NewTask(pc, chat) == [FreeTask EXCEPT !.pc = pc, !.chat = chat]

\* The objects the handlers share.
Heap ==
  [games |-> games, active |-> active_games, daily |-> daily_data, tasks |-> tasks]

FreeSlots == {t \in TaskIds : tasks[t].pc = "free"}

\* A finished task leaves no live reference behind: a game's timer_task that
\* names it is a finished Task object (truthy, and cancel() on it does nothing).
ClearRefs(gs, x) ==
  [g \in DOMAIN gs |->
     IF gs[g].timer_task = x THEN [gs[g] EXCEPT !.timer_task = FinishedTask]
     ELSE gs[g]]

\* task.cancel() on a task suspended at an await (or not yet started):
\* CancelledError is raised there and nothing of it runs again.
CancelTask(h, x) ==
  IF x \in TaskIds
  THEN [h EXCEPT !.tasks[x] = FreeTask, !.games = ClearRefs(h.games, x)]
  ELSE h

(* ---------------------------------------------------------- question bank *)
EnsureLedger(daily, chat) ==
  IF chat \in DOMAIN daily THEN daily
  ELSE [c \in DOMAIN daily \cup {chat} |-> IF c = chat THEN DailyData ELSE daily[c]]

\* get_random_unused_question: the questions random.choice may return.
Available(daily, chat) ==
  {q \in DOMAIN questions :
     Lower(questions[q]) \notin EnsureLedger(daily, chat)[chat].used_words}

\* A draw that records nothing (C8 must tell it apart).
MarkNothing(daily, chat, q) == EnsureLedger(daily, chat)

\* Lines 322-325 and 358-359: the drawn word, lowercased, joins used_words.
MarkUsed(daily, chat, q) ==
  [EnsureLedger(daily, chat) EXCEPT
     ![chat].used_words = @ \cup {Lower(questions[q])}]

(* --------------------------------------------------------------- segments *)
\* A segment is the code a coroutine runs from a call or a resumption to its
\* next await.  It maps the shared objects h to [h, t]: the objects afterwards
\* and the running task's next position (FreeTask when the coroutine chain has
\* returned).

\* end_game up to its send_message.
EndGameSeg(h, chat) ==
  IF chat \notin DOMAIN h.active THEN [h |-> h, t |-> FreeTask]
  ELSE LET g == h.active[chat]
           sorted_players == SortedPlayers(h.games[g].game_leaderboard)
       IN IF sorted_players = <<>>
          THEN [h |-> h, t |-> [NewTask("eg_send", chat) EXCEPT !.game = g]]
          ELSE [h |-> h,
                t |-> [NewTask("eg_send", chat) EXCEPT
                         !.game = g,
                         !.winner = sorted_players[1][1],
                         !.winner_points = sorted_players[1][2]]]

\* start_question up to its send_message; q is what random.choice returned.
StartQuestionSeg(h, chat, q) ==
  IF chat \notin DOMAIN h.active THEN [h |-> h, t |-> FreeTask]
  ELSE LET g == h.active[chat]
           game == [h.games[g] EXCEPT
                      !.current_question_num = @ + 1,
                      !.current_hint = 0,
                      !.answered = FALSE,
                      !.category_revealed = FALSE,
                      !.first_messages = {},
                      !.wrong_guessers = <<>>,
                      !.near_miss_shown = {}]
           h1 == [h EXCEPT !.games[g] = game, !.daily = EnsureLedger(h.daily, chat)]
       IN IF game.current_question_num > 1
          THEN IF Available(h.daily, chat) = {}
               THEN EndGameSeg([h EXCEPT !.games[g] = game,
                                         !.daily = EnsureLedger(h.daily, chat)], chat)
               ELSE [h |-> [h1 EXCEPT !.games[g].current_question = q,
                                      !.daily = MarkUsed(h.daily, chat, q)],
                     t |-> NewTask("sq_wait", chat)]
          ELSE [h |-> [h EXCEPT !.games[g] = game], t |-> NewTask("sq_wait", chat)]

\* What random.choice can return inside start_question(chat).
DrawSet(h, chat) ==
  IF /\ chat \in DOMAIN h.active
     /\ h.games[h.active[chat]].current_question_num >= 1
     /\ Available(h.daily, chat) # {}
  THEN Available(h.daily, chat)
  ELSE {NoQuestion}

\* Lines 571-574 and 612-615: the next question or the end of the game,
\* decided on the game object the handler holds.
AdvanceSeg(h, game, chat, q) ==
  IF h.games[game].current_question_num < h.games[game].total_questions
  THEN StartQuestionSeg(h, chat, q)
  ELSE EndGameSeg(h, chat)

AdvanceDrawSet(h, game, chat) ==
  IF h.games[game].current_question_num < h.games[game].total_questions
  THEN DrawSet(h, chat)
  ELSE {NoQuestion}

\* start_hint up to its send_message, and through handle_no_answer up to its
\* send_message when the fifth window has expired.
StartHintSeg(h, chat) ==
  IF chat \notin DOMAIN h.active \/ h.games[h.active[chat]].answered
  THEN [h |-> h, t |-> FreeTask]
  ELSE LET g == h.active[chat]
           game == [h.games[g] EXCEPT
                      !.current_hint = @ + 1,
                      !.hint_elapsed = 0,
                      !.first_messages = {},
                      !.wrong_guessers = <<>>]
       IN IF game.current_hint > MAX_HINTS
          THEN [h |-> [h EXCEPT !.games[g] = game],
                t |-> [NewTask("na_send", chat) EXCEPT !.game = g]]
          ELSE [h |-> [h EXCEPT !.games[g] =
                         [game EXCEPT !.category_revealed =
                            IF game.current_hint = 3 /\ ~game.category_revealed
                            THEN TRUE ELSE @]],
                t |-> [NewTask("sh_send", chat) EXCEPT !.game = g]]

\* The running task self takes the position a segment computed; a chain that
\* has returned ends the task.
Commit(r, self) ==
  /\ tasks' = [r.h.tasks EXCEPT ![self] = r.t]
  /\ games' = IF r.t.pc = "free" THEN ClearRefs(r.h.games, self) ELSE r.h.games
  /\ active_games' = r.h.active
  /\ daily_data' = r.h.daily

(* ------------------------------------------------------------------ clock *)
\* One second passes.  Only the registered game's stamps are read again
\* (handle_correct_guess reads them on active_games[chat_id]).  The seconds
\* followed are those after the first wrong guess of a window, env.age of
\* them per window: before it no stamp but hint_start_time exists.
Ages(game) ==
  [game EXCEPT !.hint_elapsed = @ + 1,
               !.wrong_guessers = [i \in DOMAIN @ |-> <<@[i][1], @[i][2] + 1>>]]

Timed(g) ==
  /\ \E c \in DOMAIN active_games : active_games[c] = g
  /\ games[g].hint_elapsed # NoTime
  /\ games[g].wrong_guessers # <<>>

Tick ==
  /\ \E g \in DOMAIN games : Timed(g)
  /\ \A g \in DOMAIN games : Timed(g) => games[g].hint_elapsed < env.age
  /\ games' = [g \in DOMAIN games |-> IF Timed(g) THEN Ages(games[g]) ELSE games[g]]
  /\ UNCHANGED <<questions, env, stops, menus, active_games, daily_data, tasks, reset_pc, clicks,
                 msgs, resets, failures, guess_log, steals_today, completions, calc>>

(* ------------------------------------------------------------ start request *)
\* play_command: the menu is posted unless the chat is private or a game is
\* registered for the chat.
PlayAccepted(c) == ChatType(c) # "private" /\ c \notin DOMAIN active_games

PlayCommand(c) ==
  /\ menus' = IF PlayAccepted(c) THEN menus \cup {c} ELSE menus
  /\ UNCHANGED <<questions, env, stops, active_games, games, daily_data, tasks, reset_pc, clicks,
                 msgs, resets, failures, guess_log, steals_today, completions, calc>>

\* A user presses a button of a posted menu: the update starts a
\* game_selection_callback task, suspended in query.answer().
SelectGame(c, n) ==
  /\ c \in menus
  /\ clicks < env.clicks
  /\ FreeSlots # {}
  /\ clicks' = clicks + 1
  /\ LET t == CHOOSE x \in FreeSlots : \A y \in FreeSlots : x <= y
     IN tasks' = [tasks EXCEPT ![t] = [NewTask("cb_answer", c) EXCEPT !.n = n]]
  /\ UNCHANGED <<questions, env, stops, menus, active_games, games, daily_data, reset_pc, msgs,
                 resets, failures, guess_log, steals_today, completions, calc>>

\* The registry after active_games[chat] = game.
Register(active, chat, g) ==
  [c \in DOMAIN active \cup {chat} |-> IF c = chat THEN g ELSE active[c]]

Unregister(active, chat) == [c \in DOMAIN active \ {chat} |-> active[c]]

\* game_selection_callback, lines 304-333: from query.answer() returning to
\* the edit of the menu message.
GameSelectionCallback(self) ==
  /\ tasks[self].pc = "cb_answer"
  /\ LET chat == tasks[self].chat
         avail == Available(daily_data, chat)
     IN IF avail = {}
        THEN /\ daily_data' = EnsureLedger(daily_data, chat)
             /\ tasks' = [tasks EXCEPT ![self] = FreeTask]
             /\ UNCHANGED <<active_games, games, guess_log, completions>>
        ELSE \E q \in avail :
               /\ games' = Append(games,
                             [ActiveGame(chat, tasks[self].n) EXCEPT !.current_question = q])
               /\ active_games' = Register(active_games, chat, Len(games) + 1)
               /\ daily_data' = MarkUsed(daily_data, chat, q)
               /\ tasks' = [tasks EXCEPT ![self] = NewTask("cb_wait", chat)]
               /\ guess_log' = Append(guess_log, <<>>)
               /\ completions' = Append(completions, [sent |-> FALSE, winner |-> 0, points |-> 0])
  /\ UNCHANGED <<questions, env, stops, menus, reset_pc, clicks, msgs, resets, failures, steals_today, calc>>

\* game_selection_callback, lines 335-336: the pause is over, start_question.
CallbackResume(self) ==
  /\ tasks[self].pc = "cb_wait"
  /\ \E q \in DrawSet(Heap, tasks[self].chat) :
       Commit(StartQuestionSeg(Heap, tasks[self].chat, q), self)
  /\ UNCHANGED <<questions, env, stops, menus, reset_pc, clicks, msgs, resets, failures, guess_log,
                 steals_today, completions, calc>>

\* start_question, lines 367-368: "Get ready" was sent and the pause is over.
QuestionAnnounced(self) ==
  /\ tasks[self].pc = "sq_wait"
  /\ Commit(StartHintSeg(Heap, tasks[self].chat), self)
  /\ UNCHANGED <<questions, env, stops, menus, reset_pc, clicks, msgs, resets, failures, guess_log,
                 steals_today, completions, calc>>

\* start_hint, lines 404-410: the hint was sent; the game's countdown is
\* cancelled and a new update_hint_timer task is created.  Every caller chain
\* returns after start_hint, so the running task ends here and the new task
\* takes its place in the task table.
HintSent(self) ==
  /\ tasks[self].pc = "sh_send"
  /\ LET g == tasks[self].game
         old == games[g].timer_task
         h1 == IF old # self THEN CancelTask(Heap, old) ELSE Heap
     IN /\ games' = [ClearRefs(h1.games, self) EXCEPT ![g].timer_task = self]
        /\ tasks' = [h1.tasks EXCEPT ![self] = NewTask("t_new", tasks[self].chat)]
  /\ UNCHANGED <<questions, env, stops, menus, active_games, daily_data, reset_pc, clicks, msgs,
                 resets, failures, guess_log, steals_today, completions, calc>>

(* ------------------------------------------------------------- hint timer *)
\* update_hint_timer, lines 415-417, run when the new task is first scheduled.
TimerStart(self) ==
  /\ tasks[self].pc = "t_new"
  /\ LET chat == tasks[self].chat
     IN IF chat \notin DOMAIN active_games \/ games[active_games[chat]].answered
        THEN /\ tasks' = [tasks EXCEPT ![self] = FreeTask]
             /\ games' = ClearRefs(games, self)
        ELSE /\ tasks' = [tasks EXCEPT ![self] =
                            [NewTask("t_wait", chat) EXCEPT !.game = active_games[chat]]]
             /\ games' = games
  /\ UNCHANGED <<questions, env, stops, menus, active_games, daily_data, reset_pc, clicks, msgs,
                 resets, failures, guess_log, steals_today, completions, calc>>

\* update_hint_timer, lines 421-447: a checkpoint sleep is over.  The task
\* returns when the game it holds is answered or the chat has no game; else
\* the countdown text is edited (a failing edit is logged and swallowed) and
\* the task sleeps on.
TimerCheckpoint(self) ==
  /\ tasks[self].pc = "t_wait"
  /\ LET chat == tasks[self].chat
         game == games[tasks[self].game]
     IN IF game.answered \/ chat \notin DOMAIN active_games
        THEN /\ tasks' = [tasks EXCEPT ![self] = FreeTask]
             /\ games' = ClearRefs(games, self)
        ELSE UNCHANGED <<tasks, games>>
  /\ UNCHANGED <<questions, env, stops, menus, active_games, daily_data, reset_pc, clicks, msgs,
                 resets, failures, guess_log, steals_today, completions, calc>>

\* update_hint_timer, lines 449-452: the window is over, start_hint.
TimerExpire(self) ==
  /\ tasks[self].pc = "t_wait"
  /\ LET chat == tasks[self].chat
         game == games[tasks[self].game]
     IN IF ~game.answered /\ chat \in DOMAIN active_games
        THEN Commit(StartHintSeg(Heap, chat), self)
        ELSE Commit([h |-> Heap, t |-> FreeTask], self)
  /\ UNCHANGED <<questions, env, stops, menus, reset_pc, clicks, msgs, resets, failures, guess_log,
                 steals_today, completions, calc>>

\* A timeout that also ends every streak of the chat (C13 must tell it
\* apart).
TimeoutEndsStreaks(self) ==
  /\ tasks[self].pc = "na_send"
  /\ LET g == tasks[self].game
         c == tasks[self].chat
         old == games[g].timer_task
         h1 == [Heap EXCEPT !.games[g].answered = TRUE,
                            !.daily = IF c \in DOMAIN @
                                      THEN [@ EXCEPT ![c].streaks = [u \in DOMAIN @ |-> 0]]
                                      ELSE @]
         h2 == IF old # self THEN CancelTask(h1, old) ELSE h1
     IN Commit([h |-> h2,
                t |-> IF old = self THEN FreeTask
                      ELSE [tasks[self] EXCEPT !.pc = "na_pause"]], self)
  /\ UNCHANGED <<questions, env, stops, menus, reset_pc, clicks, msgs, resets, failures, guess_log,
                 steals_today, completions, calc>>

\* handle_no_answer, lines 605-610: "Time's up" was sent.  The game's
\* timer_task is cancelled; when it is the running task itself, the
\* CancelledError is raised at the sleep that follows and the task ends there.
NoAnswerSent(self) ==
  /\ tasks[self].pc = "na_send"
  /\ LET g == tasks[self].game
         old == games[g].timer_task
         h1 == [Heap EXCEPT !.games[g].answered = TRUE]
         h2 == IF old # self THEN CancelTask(h1, old) ELSE h1
     IN Commit([h |-> h2,
                t |-> IF old = self THEN FreeTask
                      ELSE [tasks[self] EXCEPT !.pc = "na_pause"]], self)
  /\ UNCHANGED <<questions, env, stops, menus, reset_pc, clicks, msgs, resets, failures, guess_log,
                 steals_today, completions, calc>>

\* handle_no_answer, lines 612-615.
NoAnswerAdvance(self) ==
  /\ tasks[self].pc = "na_pause"
  /\ \E q \in AdvanceDrawSet(Heap, tasks[self].game, tasks[self].chat) :
       Commit(AdvanceSeg(Heap, tasks[self].game, tasks[self].chat, q), self)
  /\ UNCHANGED <<questions, env, stops, menus, reset_pc, clicks, msgs, resets, failures, guess_log,
                 steals_today, completions, calc>>

(* ---------------------------------------------------------------- guesses *)
NoUser == 0

\* A handle_message without the check of line 469 (C2 must tell it apart).
NeverSpoke(game, user_id) == FALSE

\* handle_message, line 469: the user already has a first message recorded in
\* this hint window.
AlreadySpoke(game, user_id) == user_id \in game.first_messages

\* handle_message, lines 478-481.
IsCorrect(game, message_text) ==
  Lower(Strip(message_text)) = Lower(questions[game.current_question])

\* A steal that takes the oldest wrong guesser however old the guess is (C4
\* must tell it apart).
StealFromFirst(wrong_guessers, steal_used, user_id) ==
  IF wrong_guessers # <<>> /\ ~FGet(steal_used, user_id, FALSE)
  THEN wrong_guessers[1][1]
  ELSE NoUser

\* A steal that never reads the scorer's steal flag (C5 must tell it apart).
StealRegardless(wrong_guessers, steal_used, user_id) ==
  LET fresh == {i \in DOMAIN wrong_guessers :
                  wrong_guessers[i][2] <= STEAL_WINDOW_SECONDS}
  IN IF fresh = {} THEN NoUser
     ELSE wrong_guessers[CHOOSE i \in fresh : \A j \in fresh : i <= j][1]

\* handle_correct_guess, lines 498-505: the user a point is stolen from, or
\* NoUser.  wrong_guessers holds <<user, seconds since>> in insertion order.
StealVictim(wrong_guessers, steal_used, user_id) ==
  IF wrong_guessers # <<>> /\ ~FGet(steal_used, user_id, FALSE)
  THEN LET fresh == {i \in DOMAIN wrong_guessers :
                       wrong_guessers[i][2] <= STEAL_WINDOW_SECONDS}
       IN IF fresh = {} THEN NoUser
          ELSE wrong_guessers[CHOOSE i \in fresh : \A j \in fresh : i <= j][1]
  ELSE NoUser

\* handle_correct_guess, lines 493-526, on the game and the ledger d of its
\* chat: the scorer's and the victim's entries afterwards.
ScoreGuess(game, d, user_id) ==
  LET time_taken == game.hint_elapsed
      stolen_from == StealVictim(game.wrong_guessers, d.steal_used, user_id)
      current_streak == FGet(d.streaks, user_id, 0) + 1
      points == calculate_points(game.current_hint, time_taken * 100, current_streak)
      d1 == [d EXCEPT
               !.steal_used = IF stolen_from # NoUser THEN FPut(@, user_id, TRUE) ELSE @,
               !.streaks = FPut(@, user_id, current_streak),
               !.leaderboard = Put(@, user_id, Get(@, user_id, 0) + points),
               !.fastest_guesses =
                  IF user_id \notin DOMAIN @ \/ time_taken < @[user_id]
                  THEN FPut(@, user_id, time_taken) ELSE @,
               !.total_correct = FPut(@, user_id, FGet(@, user_id, 0) + 1)]
      game1 == [game EXCEPT
                  !.game_leaderboard = Put(@, user_id, Get(@, user_id, 0) + points)]
  IN IF stolen_from = NoUser
     THEN [game |-> game1, d |-> d1, points |-> points, streak |-> current_streak,
           time_taken |-> time_taken, stolen_from |-> NoUser]
     ELSE [game |-> [game1 EXCEPT
                       !.game_leaderboard = Put(@, stolen_from, Get(@, stolen_from, 0) - 10)],
           d |-> [d1 EXCEPT
                    !.leaderboard = Put(@, stolen_from, Get(@, stolen_from, 0) - 10),
                    !.streaks = FPut(@, stolen_from, 0)],
           points |-> points, streak |-> current_streak,
           time_taken |-> time_taken, stolen_from |-> stolen_from]

\* handle_wrong_guess, lines 583-589.
WrongGuess(game, d, user_id, guess, answer) ==
  [game |-> [game EXCEPT
               !.wrong_guessers = Append(@, <<user_id, 0>>),
               !.near_miss_shown =
                  IF is_near_miss(guess, answer) /\ user_id \notin @
                  THEN @ \cup {user_id} ELSE @],
   d |-> [d EXCEPT !.streaks = IF user_id \in DOMAIN @ THEN FPut(@, user_id, 0) ELSE @]]

\* A message is evaluated as a guess when a game is registered for the chat,
\* it is not answered and the user has not spoken in this window.
Evaluated(c, u) ==
  /\ c \in DOMAIN active_games
  /\ ~games[active_games[c]].answered
  /\ ~AlreadySpoke(games[active_games[c]], u)

\* The record of an evaluated guess, kept where the run is followed end to end.
Logged(g, entry) ==
  IF env.log THEN [guess_log EXCEPT ![g] = Append(@, entry)] ELSE guess_log

\* handle_message together with the part of handle_correct_guess or
\* handle_wrong_guess that runs before their first await.  A correct guess
\* leaves the handler suspended in the send of the result message.
HandleMessage(c, u, message_text) ==
  /\ msgs[u] < env.msgs[u]
  /\ IF ~Evaluated(c, u)
     THEN UNCHANGED <<games, daily_data, tasks, msgs, guess_log, steals_today>>
     ELSE LET g == active_games[c]
              game == [games[g] EXCEPT !.first_messages = @ \cup {u}]
              daily == [EnsureLedger(daily_data, c) EXCEPT
                          ![c].user_names = FPut(@, u, FirstName(u))]
          IN /\ msgs' = [msgs EXCEPT ![u] = @ + 1]
             /\ IF IsCorrect(game, message_text)
                THEN IF game.hint_elapsed = NoTime
                     THEN \* line 493 raises TypeError: the handler ends here
                          /\ games' = [games EXCEPT ![g] = game]
                          /\ daily_data' = daily
                          /\ UNCHANGED <<tasks, guess_log, steals_today>>
                     ELSE /\ FreeSlots # {}
                          /\ LET r == ScoreGuess(game, daily[c], u)
                                 t == CHOOSE x \in FreeSlots : \A y \in FreeSlots : x <= y
                             IN /\ games' = [games EXCEPT ![g] = r.game]
                                /\ daily_data' = [daily EXCEPT ![c] = r.d]
                                /\ tasks' = [tasks EXCEPT ![t] =
                                      [NewTask("cg_send", c) EXCEPT !.game = g, !.user = u]]
                                /\ guess_log' = Logged(g,
                                      [user |-> u, correct |-> TRUE, near |-> FALSE,
                                       question |-> game.current_question,
                                       question_num |-> game.current_question_num,
                                       hint |-> game.current_hint,
                                       time_taken |-> r.time_taken,
                                       streak |-> r.streak, points |-> r.points])
                                /\ steals_today' =
                                      IF r.stolen_from # NoUser
                                      THEN [steals_today EXCEPT ![u] = @ + 1]
                                      ELSE steals_today
                ELSE LET r == WrongGuess(game, daily[c], u, Lower(Strip(message_text)),
                                         Lower(questions[game.current_question]))
                     IN /\ games' = [games EXCEPT ![g] = r.game]
                        /\ daily_data' = [daily EXCEPT ![c] = r.d]
                        /\ guess_log' = Logged(g,
                              [user |-> u, correct |-> FALSE,
                               near |-> u \in r.game.near_miss_shown
                                          /\ u \notin game.near_miss_shown,
                               question |-> game.current_question,
                               question_num |-> game.current_question_num,
                               hint |-> game.current_hint,
                               time_taken |-> 0, streak |-> 0, points |-> 0])
                        /\ UNCHANGED <<tasks, steals_today>>
  /\ UNCHANGED <<questions, env, stops, menus, active_games, reset_pc, clicks, resets, failures,
                 completions, calc>>

\* handle_correct_guess, lines 545-550: the result was sent; the game the
\* handler holds is marked answered and its countdown cancelled.
ResultSent(self) ==
  /\ tasks[self].pc = "cg_send"
  /\ LET g == tasks[self].game
         h1 == [Heap EXCEPT !.games[g].answered = TRUE]
     IN Commit([h |-> CancelTask(h1, games[g].timer_task),
                t |-> [tasks[self] EXCEPT !.pc = "cg_pause"]], self)
  /\ UNCHANGED <<questions, env, stops, menus, reset_pc, clicks, msgs, resets, failures, guess_log,
                 steals_today, completions, calc>>

\* MILESTONES, in points, in the order of the dict.
MILESTONES == <<50, 100, 150, 200>>

\* A milestone loop that announces every threshold the total has passed,
\* announced before or not (C12 must tell it apart).
AnnounceAgain(h, rec, q) ==
  LET due == {i \in rec.ms..Len(MILESTONES) : rec.total_points >= MILESTONES[i] * 10}
  IN IF due = {} \/ rec.user \notin DOMAIN h.daily[rec.chat].milestones_reached
     THEN AdvanceSeg(h, rec.game, rec.chat, q)
     ELSE LET i == CHOOSE x \in due : \A y \in due : x <= y
          IN [h |-> [h EXCEPT !.daily[rec.chat].milestones_reached[rec.user] =
                       @ \cup {MILESTONES[i]}],
              t |-> [rec EXCEPT !.pc = "cg_ms", !.ms = i + 1]]

\* handle_correct_guess, lines 561-574: the milestone loop from position
\* rec.ms on, up to the send of a milestone message, or through the loop's end
\* into the next question or the end of the game.  A ledger reset while the
\* handler was suspended makes milestones_reached[user_id] raise KeyError.
RECURSIVE MilestoneSeg(_, _, _)
MilestoneSeg(h, rec, q) ==
  LET d == h.daily[rec.chat]
      i == rec.ms
  IN IF i > Len(MILESTONES)
     THEN AdvanceSeg(h, rec.game, rec.chat, q)
     ELSE IF rec.total_points >= MILESTONES[i] * 10
          THEN IF rec.user \notin DOMAIN d.milestones_reached
               THEN [h |-> h, t |-> FreeTask]
               ELSE IF MILESTONES[i] \notin d.milestones_reached[rec.user]
                    THEN [h |-> [h EXCEPT !.daily[rec.chat].milestones_reached[rec.user] =
                                   @ \cup {MILESTONES[i]}],
                          t |-> [rec EXCEPT !.pc = "cg_ms", !.ms = i + 1]]
                    ELSE MilestoneSeg(h, [rec EXCEPT !.ms = i + 1], q)
          ELSE MilestoneSeg(h, [rec EXCEPT !.ms = i + 1], q)

\* handle_correct_guess, lines 552-574.  At cg_pause the pauses and the game
\* leaderboard are over: total_points is read once (a ledger reset since the
\* guess makes leaderboard[user_id] raise KeyError) and the loop starts.  At
\* cg_ms a milestone message was sent and the loop goes on.
Milestones(self) ==
  /\ tasks[self].pc \in {"cg_pause", "cg_ms"}
  /\ LET rec == tasks[self]
         d == daily_data[rec.chat]
     IN IF rec.pc = "cg_ms"
        THEN \E q \in AdvanceDrawSet(Heap, rec.game, rec.chat) :
               Commit(MilestoneSeg(Heap, rec, q), self)
        ELSE IF rec.user \notin Keys(d.leaderboard)
        THEN Commit([h |-> Heap, t |-> FreeTask], self)
        ELSE LET h1 == [Heap EXCEPT !.daily[rec.chat].milestones_reached =
                          IF rec.user \in DOMAIN @ THEN @ ELSE FPut(@, rec.user, {})]
                 rec1 == [rec EXCEPT !.total_points = Get(d.leaderboard, rec.user, 0),
                                     !.ms = 1]
             IN \E q \in AdvanceDrawSet(Heap, rec.game, rec.chat) :
                  Commit(MilestoneSeg(h1, rec1, q), self)
  /\ UNCHANGED <<questions, env, stops, menus, reset_pc, clicks, msgs, resets, failures, guess_log,
                 steals_today, completions, calc>>

(* ------------------------------------------------------------- end of game *)
\* end_game, lines 666 and 711-714: the final message was sent.  With a
\* non-empty game leaderboard the countdown of the game the coroutine holds
\* is cancelled; then the chat's registry entry is deleted (KeyError, and no
\* change, when the chat has none).
EndGameFinish(self) ==
  /\ tasks[self].pc = "eg_send"
  /\ LET rec == tasks[self]
         old == games[rec.game].timer_task
         h1 == IF games[rec.game].game_leaderboard # <<>> /\ old # self
               THEN CancelTask(Heap, old) ELSE Heap
     IN /\ Commit([h |-> [h1 EXCEPT !.active = Unregister(h1.active, rec.chat)],
                   t |-> FreeTask], self)
        /\ completions' = [completions EXCEPT ![rec.game] =
              [sent |-> TRUE, winner |-> rec.winner, points |-> rec.winner_points]]
  /\ UNCHANGED <<questions, env, stops, menus, reset_pc, clicks, msgs, resets, failures, guess_log,
                 steals_today, calc>>

(* ------------------------------------------------------- failed Bot API call *)
\* The Bot API call a handler is suspended in raises (network error, bad
\* request).  Only update_hint_timer's edit and post_daily_results' send are
\* inside a try; everywhere else the exception ends the task.
AwaitsSend(rec) ==
  \/ rec.pc \in {"cb_answer", "cb_wait", "sq_wait", "sh_send", "na_send",
                 "cg_send", "cg_ms", "eg_send"}
  \/ /\ rec.pc = "cg_pause"            \* show_game_leaderboard sends
     /\ rec.chat \in DOMAIN active_games
     /\ games[active_games[rec.chat]].game_leaderboard # <<>>

SendFails(self) ==
  /\ failures < env.failures
  /\ AwaitsSend(tasks[self])
  /\ failures' = failures + 1
  /\ Commit([h |-> Heap, t |-> FreeTask], self)
  /\ UNCHANGED <<questions, env, stops, menus, reset_pc, clicks, msgs, resets, guess_log,
                 steals_today, completions, calc>>

(* -------------------------------------------------------------------- stop *)
\* A stop_command without the admin check (C9 must tell it apart).
AnyoneMayStop(c, status) == TRUE

\* stop_command, lines 794-798: who may stop.
StopAllowed(c, status) ==
  ChatType(c) = "private" \/ status \in {"creator", "administrator"}

\* stop_command; status is what get_chat_member reports for the sender.
StopCommand(c, status) ==
  /\ IF StopAllowed(c, status) /\ c \in DOMAIN active_games
     THEN LET h1 == CancelTask(Heap, games[active_games[c]].timer_task)
          IN /\ stops < env.stops
             /\ stops' = stops + 1
             /\ games' = h1.games
             /\ tasks' = h1.tasks
             /\ active_games' = Unregister(active_games, c)
     ELSE UNCHANGED <<games, tasks, active_games, stops>>
  /\ UNCHANGED <<questions, env, menus, daily_data, reset_pc, clicks, msgs, resets, failures,
                 guess_log, steals_today, completions, calc>>

(* ------------------------------------------------------------- daily reset *)
\* The daily_reset job when it is not running; while it posts results it
\* holds the size the dict of ledgers had when its loop began.
IdleJob == [pc |-> "idle", seen |-> 0]

ResetAll(daily) == [c \in DOMAIN daily |-> DailyDataReset(daily[c])]

\* daily_reset, lines 814-819: the job posts the results of every chat whose
\* leaderboard is not empty (suspended in the send), then resets every ledger.
DailyResetStart ==
  /\ reset_pc.pc = "idle"
  /\ resets < env.resets
  /\ resets' = resets + 1
  /\ IF \E c \in DOMAIN daily_data : daily_data[c].leaderboard # <<>>
     THEN /\ reset_pc' = [pc |-> "posting", seen |-> Cardinality(DOMAIN daily_data)]
          /\ UNCHANGED <<daily_data, steals_today>>
     ELSE /\ reset_pc' = IdleJob
          /\ daily_data' = ResetAll(daily_data)
          /\ steals_today' = [u \in Users |-> 0]
  /\ UNCHANGED <<questions, env, stops, menus, active_games, games, tasks, clicks, msgs, failures,
                 guess_log, completions, calc>>

\* daily_reset, lines 814-819: the posts are over.  The loop of line 814
\* iterates game_state.daily_data itself: when a ledger was added to the dict
\* while the job was suspended, the iterator raises RuntimeError (dictionary
\* changed size during iteration) and the job ends before line 818.
DailyResetFinish ==
  /\ reset_pc.pc = "posting"
  /\ reset_pc' = IdleJob
  /\ IF Cardinality(DOMAIN daily_data) = reset_pc.seen
     THEN /\ daily_data' = ResetAll(daily_data)
          /\ steals_today' = [u \in Users |-> 0]
     ELSE UNCHANGED <<daily_data, steals_today>>
  /\ UNCHANGED <<questions, env, stops, menus, active_games, games, tasks, clicks, msgs, resets,
                 failures, guess_log, completions, calc>>

(* ------------------------------------------------------------ specification *)
NoCalc == [hint_number |-> 0, time_taken |-> 0, streak |-> 0, points |-> 0, done |-> FALSE]

\* A state in which no game is registered and no task runs, with the ledgers
\* earlier games have left.
StartFrom(bank, surroundings, ledgers) ==
  /\ questions = bank
  /\ env = surroundings
  /\ stops = 0
  /\ menus = {}
  /\ active_games = EmptyMap
  /\ games = <<>>
  /\ daily_data = ledgers
  /\ tasks = [t \in 1..surroundings.tasks |-> FreeTask]
  /\ reset_pc = IdleJob
  /\ clicks = 0
  /\ msgs = [u \in Users |-> 0]
  /\ resets = 0
  /\ failures = 0
  /\ guess_log = <<>>
  /\ steals_today = [u \in Users |-> 0]
  /\ completions = <<>>
  /\ calc = NoCalc

\* The state after main() has built the application: the bank is loaded, no
\* game, no ledger, no task.
Start(bank, surroundings) == StartFrom(bank, surroundings, EmptyMap)

\* How many guesses of users 1, 2 and 3 are delivered.
Quota(a, b, c) ==
  [u \in Users |-> IF u = 1 THEN a ELSE IF u = 2 THEN b ELSE IF u = 3 THEN c ELSE 0]

\* Surroundings that deliver one menu selection and nothing else.
OneSession ==
  [clicks |-> SessionClicks, msgs |-> Quota(0, 0, 0), resets |-> 0, failures |-> 0,
   stops |-> 0, age |-> 0, tasks |-> SessionTasks, log |-> FALSE, groups |-> {1}]

\* The steps of the tasks that run a session without a correct guess.
SessionSteps(self) ==
  \/ GameSelectionCallback(self)
  \/ CallbackResume(self)
  \/ QuestionAnnounced(self)
  \/ HintSent(self)
  \/ TimerStart(self)
  \/ TimerCheckpoint(self)
  \/ TimerExpire(self)
  \/ NoAnswerSent(self)
  \/ NoAnswerAdvance(self)
  \/ EndGameFinish(self)

\* The steps of a handle_correct_guess task.
GuessSteps(self) ==
  \/ ResultSent(self)
  \/ Milestones(self)

\* Start requests: the menu is posted and selections arrive, several of them
\* from the same menu; nobody guesses.
Init == Start(SmallBank, [OneSession EXCEPT !.clicks = MaxClicks, !.tasks = MaxTasks])

Next ==
  \/ \E c \in Chats : PlayCommand(c)
  \/ \E c \in Chats, n \in GameSizes : SelectGame(c, n)
  \/ \E self \in 1..MaxTasks : SessionSteps(self)

Spec == Init /\ [][Next]_vars

\* Stop requests: one session, a guess of each of two users, stop commands
\* from senders of every member status.
InitStop ==
  Start(SmallBank, [OneSession EXCEPT !.msgs = Quota(FewGuesses, FewGuesses, 0),
                                      !.stops = MaxStops])

NextStop ==
  \/ \E c \in Chats : PlayCommand(c)
  \/ \E c \in Chats, n \in GameSizes : SelectGame(c, n)
  \/ \E c \in Chats, u \in Users, m \in MessageTexts : HandleMessage(c, u, m)
  \/ \E c \in Chats, st \in MemberStatuses : StopCommand(c, st)
  \/ \E self \in 1..SessionTasks : SessionSteps(self) \/ GuessSteps(self)

SpecStop == InitStop /\ [][NextStop]_vars

\* Guesses of one user: one session, any texts, a daily reset.
InitGuess ==
  Start(SmallBank, [OneSession EXCEPT !.msgs = Quota(MaxGuesses, 0, 0),
                                      !.resets = MaxResets])

NextGuess ==
  \/ \E c \in Chats : PlayCommand(c)
  \/ \E c \in Chats, n \in GameSizes : SelectGame(c, n)
  \/ \E c \in Chats, u \in Users, m \in MessageTexts : HandleMessage(c, u, m)
  \/ \E self \in 1..SessionTasks : SessionSteps(self) \/ GuessSteps(self)
  \/ DailyResetStart
  \/ DailyResetFinish

SpecGuess == InitGuess /\ [][NextGuess]_vars

\* The users of the steal scenarios: users 1 and 3 send a word no question
\* has, user 2 sends the words of the bank.
Cast ==
  { <<1, <<"e", "f">> >>, <<3, <<"e", "f">> >>,
    <<2, <<" ", "A", "B", " ">> >>, <<2, <<"c", "d">> >> }

\* Steals: one session of three questions, the clock running.
InitSteal ==
  Start(SmallBank, [OneSession EXCEPT !.msgs = Quota(FewGuesses, MaxGuesses, FewGuesses),
                                      !.age = MaxAge])

NextSteal ==
  \/ Tick
  \/ \E c \in Chats : PlayCommand(c)
  \/ \E c \in Chats : SelectGame(c, 3)
  \/ \E c \in Chats, p \in Cast : HandleMessage(c, p[1], p[2])
  \/ \E self \in 1..SessionTasks : SessionSteps(self) \/ GuessSteps(self)

SpecSteal == InitSteal /\ [][NextSteal]_vars

\* Steals across a daily reset: one session of three questions, users 1 and 2.
InitDay ==
  Start(SmallBank, [OneSession EXCEPT !.msgs = Quota(MaxGuesses, MaxGuesses, 0),
                                      !.resets = MaxResets])

NextDay ==
  \/ \E c \in Chats : PlayCommand(c)
  \/ \E c \in Chats : SelectGame(c, 3)
  \/ \E c \in Chats, p \in Cast : HandleMessage(c, p[1], p[2])
  \/ \E self \in 1..SessionTasks : SessionSteps(self) \/ GuessSteps(self)
  \/ DailyResetStart
  \/ DailyResetFinish

SpecDay == InitDay /\ [][NextDay]_vars

\* A session followed to its end: a bank of three words, one user, every
\* evaluated guess recorded.
InitRun ==
  Start(ThreeWordBank, [OneSession EXCEPT !.msgs = Quota(RunGuesses, 0, 0),
                                          !.log = TRUE])

NextRun ==
  \/ \E c \in Chats : PlayCommand(c)
  \/ \E c \in Chats, n \in GameSizes : SelectGame(c, n)
  \/ \E c \in Chats, u \in Users, m \in MessageTexts : HandleMessage(c, u, m)
  \/ \E self \in 1..SessionTasks : SessionSteps(self) \/ GuessSteps(self)

SpecRun == InitRun /\ [][NextRun]_vars

\* Near misses: one game, user 1 sends words of the bank and texts one letter
\* away from them, at any moment from the registration of the game on.
NearTexts == { <<"a", "b", "x">>, <<"c", "d", "x">>, <<"a", "b">>, <<"c", "d">> }

InitNear ==
  Start(SmallBank, [OneSession EXCEPT !.msgs = Quota(RunGuesses, 0, 0), !.log = TRUE])

NextNear ==
  \/ \E c \in Chats : PlayCommand(c)
  \/ \E c \in Chats : SelectGame(c, 3)
  \/ \E c \in Chats, u \in Users, m \in NearTexts : HandleMessage(c, u, m)
  \/ \E self \in 1..SessionTasks : SessionSteps(self) \/ GuessSteps(self)

SpecNear == InitNear /\ [][NextNear]_vars

\* Milestones: a bank of seven words.  Earlier in the day a game of chat 1 was
\* stopped after four of them: user 1 answered each on streak 1, with a wrong
\* guess before each answer and after the last (at hint 1 within 5 seconds
\* twice, at hint 1 after 5 seconds once, at hint 3 within 5 seconds once:
\* 11 + 11 + 10 + 7 = 39 points); user 2 guessed wrong only.  A game of three
\* questions follows.
MileBank ==
  << <<"A", "b">>, <<"c", "d">>, <<"e", "f">>,
     <<"g", "h">>, <<"i", "j">>, <<"k", "l">>, <<"m", "n">> >>

EarlierLedger ==
  [ used_words         |-> {<<"g", "h">>, <<"i", "j">>, <<"k", "l">>, <<"m", "n">>},
    leaderboard        |-> << <<1, 390>> >>,
    streaks            |-> [u \in {1} |-> 0],
    steal_used         |-> EmptyMap,
    fastest_guesses    |-> [u \in {1} |-> 0],
    total_correct      |-> [u \in {1} |-> 4],
    user_names         |-> [u \in {1, 2} |-> FirstName(u)],
    milestones_reached |-> [u \in {1} |-> {}] ]

MileCast ==
  {1, 2} \X { <<"a", "b">>, <<"c", "d">>, <<"e", "f">> }

InitMile ==
  StartFrom(MileBank,
            [OneSession EXCEPT !.msgs = Quota(RunGuesses, FewGuesses, 0)],
            [c \in {1} |-> EarlierLedger])

NextMile ==
  \/ \E c \in Chats : PlayCommand(c)
  \/ \E c \in Chats : SelectGame(c, 3)
  \/ \E c \in Chats, p \in MileCast : HandleMessage(c, p[1], p[2])
  \/ \E self \in 1..SessionTasks : SessionSteps(self) \/ GuessSteps(self)

SpecMile == InitMile /\ [][NextMile]_vars

\* Failing sends: one game, two guesses of user 1, and a Bot API call that
\* raises in any handler suspended in one.
InitFail ==
  Start(SmallBank, [OneSession EXCEPT !.msgs = Quota(MaxGuesses, 0, 0),
                                      !.failures = MaxFailures])

NextFail ==
  \/ \E c \in Chats : PlayCommand(c)
  \/ \E c \in Chats : SelectGame(c, 3)
  \/ \E c \in Chats, u \in Users, m \in MessageTexts : HandleMessage(c, u, m)
  \/ \E self \in 1..SessionTasks : SessionSteps(self) \/ GuessSteps(self)
  \/ \E self \in 1..SessionTasks : SendFails(self)

SpecFail == InitFail /\ [][NextFail]_vars

\* Concurrent handlers: one game, a guess of each of two users, and room in
\* the task table for two handlers beside the countdown (the application runs
\* with concurrent_updates, line 886).
InitRace ==
  Start(SmallBank, [OneSession EXCEPT !.msgs = Quota(FewGuesses, FewGuesses, 0),
                                      !.tasks = MaxTasks, !.log = TRUE])

NextRace ==
  \/ \E c \in Chats : PlayCommand(c)
  \/ \E c \in Chats : SelectGame(c, 3)
  \/ \E c \in Chats, u \in Users, m \in MessageTexts : HandleMessage(c, u, m)
  \/ \E self \in 1..MaxTasks : SessionSteps(self) \/ GuessSteps(self)

SpecRace == InitRace /\ [][NextRace]_vars

\* A game after a stopped game: two selections, each delivered while the chat
\* has no game registered and no selection under way (so no game is ever
\* replaced), one guess of user 1 and a stop command of an administrator.
FreshSelection(c) ==
  /\ c \notin DOMAIN active_games
  /\ \A t \in DOMAIN tasks : ~(tasks[t].pc = "cb_answer" /\ tasks[t].chat = c)
  /\ SelectGame(c, 3)

InitRestart ==
  Start(SmallBank, [OneSession EXCEPT !.clicks = RestartClicks,
                                      !.msgs = Quota(FewGuesses, 0, 0),
                                      !.stops = MaxStops])

NextRestart ==
  \/ \E c \in Chats : PlayCommand(c)
  \/ \E c \in Chats : FreshSelection(c)
  \/ \E c \in Chats, u \in Users, m \in MessageTexts : HandleMessage(c, u, m)
  \/ \E c \in Chats : StopCommand(c, "administrator")
  \/ \E self \in 1..SessionTasks : SessionSteps(self) \/ GuessSteps(self)

SpecRestart == InitRestart /\ [][NextRestart]_vars

\* Selections piling up: four buttons of the menu of a chat are pressed, and
\* the handlers are followed up to the send of the first hint.
InitCount ==
  Start(FourWordBank, [OneSession EXCEPT !.clicks = CountClicks, !.tasks = CountClicks])

NextCount ==
  \/ \E c \in Chats : PlayCommand(c)
  \/ \E c \in Chats : SelectGame(c, 3)
  \/ \E self \in 1..CountClicks :
       GameSelectionCallback(self) \/ CallbackResume(self) \/ QuestionAnnounced(self)

SpecCount == InitCount /\ [][NextCount]_vars

\* The daily reset beside a second group: chats 1 and 2 are groups, chat 1
\* holds the ledger of a game played earlier in the day, and a game is started
\* in either chat around the time the job runs.
InitReset ==
  StartFrom(MileBank,
            [OneSession EXCEPT !.resets = MaxResets, !.groups = {1, 2}],
            [c \in {1} |-> EarlierLedger])

NextReset ==
  \/ \E c \in Chats : PlayCommand(c)
  \/ \E c \in Chats : SelectGame(c, 3)
  \/ \E self \in 1..SessionTasks :
       \/ GameSelectionCallback(self) \/ CallbackResume(self)
       \/ QuestionAnnounced(self) \/ HintSent(self)
       \/ TimerStart(self) \/ TimerCheckpoint(self) \/ TimerExpire(self)
       \/ NoAnswerSent(self)
  \/ DailyResetStart
  \/ DailyResetFinish

SpecReset == InitReset /\ [][NextReset]_vars

\* The rankings on their own: each leaderboard message computed from a point
\* map of up to MaxBoard users.  The users were inserted in descending order
\* of their ids, so insertion order and id order differ.
Boards ==
  UNION { { [k \in 1..n |-> <<n + 1 - k, pts[k]>>] :
              pts \in [1..n -> IF n <= ShortBoard THEN {-10, 100, 110} ELSE {100, 110}] } :
          n \in 1..MaxBoard }

InitRank ==
  /\ questions = SmallBank
  /\ env = OneSession
  /\ stops = 0
  /\ menus = {}
  /\ active_games = EmptyMap
  /\ games = <<>>
  /\ daily_data = EmptyMap
  /\ tasks = [t \in 1..SessionTasks |-> FreeTask]
  /\ reset_pc = IdleJob
  /\ clicks = 0
  /\ msgs = [u \in Users |-> 0]
  /\ resets = 0
  /\ failures = 0
  /\ guess_log = <<>>
  /\ steals_today = [u \in Users |-> 0]
  /\ completions = <<>>
  /\ \E view \in {"game", "daily", "final"}, d \in Boards :
       calc = [view |-> view, board |-> d, out |-> <<>>, winner |-> <<>>, done |-> FALSE]

Rank ==
  /\ ~calc.done
  /\ calc' = [calc EXCEPT !.out = LeaderboardView(calc.view, calc.board),
                          !.winner = Winner(calc.board),
                          !.done = TRUE]
  /\ UNCHANGED <<questions, env, stops, menus, active_games, games, daily_data, tasks, reset_pc,
                 clicks, msgs, resets, failures, guess_log, steals_today, completions>>

SpecRank == InitRank /\ [][Rank]_vars

\* The scoring policy on its own: calculate_points applied to every hint
\* number, elapsed time and streak of the grid.
Elapsed == {0, 499, 500, 501, 1000}

InitPoints ==
  /\ \E h \in 0..(MAX_HINTS + 1), t \in Elapsed, k \in 0..MaxStreak :
       calc = [hint_number |-> h, time_taken |-> t, streak |-> k,
               points |-> 0, done |-> FALSE]
  /\ questions = SmallBank
  /\ env = OneSession
  /\ stops = 0
  /\ menus = {}
  /\ active_games = EmptyMap
  /\ games = <<>>
  /\ daily_data = EmptyMap
  /\ tasks = [t \in 1..SessionTasks |-> FreeTask]
  /\ reset_pc = IdleJob
  /\ clicks = 0
  /\ msgs = [u \in Users |-> 0]
  /\ resets = 0
  /\ failures = 0
  /\ guess_log = <<>>
  /\ steals_today = [u \in Users |-> 0]
  /\ completions = <<>>

Score ==
  /\ ~calc.done
  /\ calc' = [calc EXCEPT
                !.points = calculate_points(calc.hint_number, calc.time_taken, calc.streak),
                !.done = TRUE]
  /\ UNCHANGED <<questions, env, stops, menus, active_games, games, daily_data, tasks,
                 reset_pc, clicks, msgs, resets, failures, guess_log, steals_today,
                 completions>>

SpecPoints == InitPoints /\ [][Score]_vars

(* ------------------------------------------------------------------ claims *)
\* C1: a menu selection handled while a game is registered for the chat is
\* rejected: the registry and every game object, the registered one with its
\* question, question number, hint number, points and timer, stay as they are.
C1_SelectionRejected ==
  [][\A self \in DOMAIN tasks :
       (tasks[self].chat \in DOMAIN active_games /\ GameSelectionCallback(self))
         => UNCHANGED <<active_games, games>>]_vars

\* C3: once the fifth window of a question has expired and the game is marked
\* answered, a task of the chat is on its way to the next question or to the
\* end of the game.
C3_TimeoutAdvances ==
  \A c \in DOMAIN active_games :
    (games[active_games[c]].answered /\ games[active_games[c]].current_hint > MAX_HINTS)
      => \E t \in DOMAIN tasks :
           tasks[t].chat = c /\ tasks[t].pc \in {"na_pause", "eg_send"}

\* C10: the first hint window a game opens is hint 1 of question 1.
C10_FirstWindow ==
  [][\A g \in DOMAIN games :
       (games[g].hint_elapsed = NoTime /\ games'[g].hint_elapsed # NoTime)
         => (games'[g].current_hint = 1 /\ games'[g].current_question_num = 1)]_vars

\* C2: no step evaluates a guess of a user who is recorded in first_messages
\* of the chat's game, and a message such a user sends changes nothing of the
\* games, the ledgers and the tasks: a correct text after a wrong first message
\* in the same window resolves nothing.
C2_FirstMessageWins ==
  [][\A c \in DOMAIN active_games, u \in Users :
       u \in games[active_games[c]].first_messages
         => /\ msgs'[u] = msgs[u]
            /\ \A m \in MessageTexts :
                 HandleMessage(c, u, m)
                   => UNCHANGED <<active_games, games, daily_data, tasks>>]_vars

\* A user guessed wrong in an open window and has another message to send.
C2_Witness ==
  \E c \in DOMAIN active_games, u \in Users :
    LET game == games[active_games[c]]
    IN /\ ~game.answered
       /\ game.current_hint \in 1..MAX_HINTS
       /\ u \in game.first_messages
       /\ \E i \in DOMAIN game.wrong_guessers : game.wrong_guessers[i][1] = u
       /\ msgs[u] < env.msgs[u]

\* used_words of chat c, empty while the chat has no ledger.
UsedWords(daily, c) == IF c \in DOMAIN daily THEN daily[c].used_words ELSE {}

\* The step is the one in which daily_reset clears the ledgers.
ResetStep ==
  /\ reset_pc'.pc = "idle"
  /\ \/ reset_pc.pc = "posting" /\ Cardinality(DOMAIN daily_data) = reset_pc.seen
     \/ resets' # resets

\* The question the step draws for chat c (NoQuestion when it draws none): the
\* one a new game of the chat holds, or the one the chat's game holds after its
\* question number went past 1 with a question left to draw.
Drawn(c) ==
  IF Len(games') > Len(games)
  THEN IF games'[Len(games')].group_id = c
       THEN games'[Len(games')].current_question ELSE NoQuestion
  ELSE IF /\ c \in DOMAIN active_games
          /\ games'[active_games[c]].current_question_num > 1
          /\ games'[active_games[c]].current_question_num
               > games[active_games[c]].current_question_num
          /\ Available(daily_data, c) # {}
       THEN games'[active_games[c]].current_question
       ELSE NoQuestion

\* used_words only grows between resets; a drawn question's lowercased word
\* was not in used_words before the draw and is in it afterwards; a reset
\* makes every question eligible again.
DrawsRecorded ==
  \A c \in Chats :
    /\ ResetStep \/ UsedWords(daily_data, c) \subseteq UsedWords(daily_data', c)
    /\ ResetStep => Available(daily_data', c) = DOMAIN questions
    /\ Drawn(c) # NoQuestion
         => /\ Lower(questions[Drawn(c)]) \notin UsedWords(daily_data, c)
            /\ Lower(questions[Drawn(c)]) \in UsedWords(daily_data', c)
            /\ UsedWords(daily_data', c)
                 = UsedWords(daily_data, c) \cup {Lower(questions[Drawn(c)])}

\* C8 as stated: used_words only grows between resets, every drawn word was
\* unused and is used afterwards, a reset makes every word eligible, and each
\* draw shrinks the eligible pool by exactly one question.
C8_Original ==
  [][/\ DrawsRecorded
     /\ \A c \in Chats :
          Drawn(c) # NoQuestion
            => Cardinality(Available(daily_data', c))
                 = Cardinality(Available(daily_data, c)) - 1]_vars

\* C8, amended: as stated, but each draw removes from the eligible pool
\* exactly the questions whose lowercased word is the drawn one: at least one,
\* and exactly one when no other question has that word up to case.
C8_DrawsShrinkPool ==
  [][/\ DrawsRecorded
     /\ \A c \in Chats :
          Drawn(c) # NoQuestion
            => /\ Available(daily_data', c)
                    = Available(daily_data, c)
                        \ {q \in DOMAIN questions :
                             Lower(questions[q]) = Lower(questions[Drawn(c)])}
               /\ Cardinality(Available(daily_data', c))
                    < Cardinality(Available(daily_data, c))]_vars

\* A question was drawn after a reset had emptied used_words, and the draw
\* took two questions out of the pool: the chat's game is past question 1, a
\* reset has run, one word is used and one question of the three is eligible.
C8_Witness ==
  \E c \in DOMAIN active_games :
    /\ resets > 0
    /\ reset_pc = IdleJob
    /\ games[active_games[c]].current_question_num > 1
    /\ games[active_games[c]].current_hint = 0
    /\ Cardinality(UsedWords(daily_data, c)) = 1
    /\ Cardinality(Available(daily_data, c)) = 1

\* C9: a stop command of a group member who is no administrator changes no
\* game, task or ledger; a stop command of an administrator (or in a direct
\* chat) where a game is registered removes the chat from the registry and
\* leaves the game's timer task dead, whatever the game's position, changes no
\* ledger, and a /play in the group is accepted afterwards.
C9_Stop ==
  [][\A c \in Chats, st \in MemberStatuses :
       StopCommand(c, st)
         => IF ChatType(c) = "group" /\ st \notin {"creator", "administrator"}
            THEN UNCHANGED <<active_games, games, tasks, daily_data>>
            ELSE c \in DOMAIN active_games
                   => /\ c \notin DOMAIN active_games'
                      /\ games[active_games[c]].timer_task \in DOMAIN tasks
                           => tasks'[games[active_games[c]].timer_task].pc = "free"
                      /\ daily_data' = daily_data
                      /\ ChatType(c) = "group" => PlayAccepted(c)']_vars

\* An administrator stopped a game during the pause that follows a correct
\* guess: the game is answered, its handler is still in the pause and the chat
\* has no game.
C9_Witness ==
  /\ stops > 0
  /\ 1 \notin DOMAIN active_games
  /\ \E t \in DOMAIN tasks :
       /\ tasks[t].pc = "cg_pause"
       /\ tasks[t].chat = 1
       /\ games[tasks[t].game].answered

\* The ledger of chat c, the empty one while the chat has none.
Ledger(daily, c) == IF c \in DOMAIN daily THEN daily[c] ELSE DailyData

\* The step is one in which user u resolves the question of chat c: the
\* ledger counts one more correct guess of u.
Scores(c, u) ==
  /\ c \in DOMAIN active_games
  /\ FGet(Ledger(daily_data', c).total_correct, u, 0)
       = FGet(Ledger(daily_data, c).total_correct, u, 0) + 1

\* User w has the same points and the same streak before and after the step.
Untouched(c, w) ==
  /\ Get(Ledger(daily_data', c).leaderboard, w, 0)
       = Get(Ledger(daily_data, c).leaderboard, w, 0)
  /\ FGet(Ledger(daily_data', c).streaks, w, 0) = FGet(Ledger(daily_data, c).streaks, w, 0)
  /\ Get(games'[active_games[c]].game_leaderboard, w, 0)
       = Get(games[active_games[c]].game_leaderboard, w, 0)

\* C4: when user u resolves a question, a steal happens exactly when the
\* window's wrong-guess log is not empty, u's steal flag is not set and some
\* logged guess is at most 2 seconds old; the victim is the first such entry;
\* the victim then loses exactly one point (ten tenths) in the ledger and in
\* the game, its streak is 0 and u's flag is set; without a steal no other
\* user's points or streak change and u's flag stays as it is.
C4_StealRule ==
  [][\A c \in Chats, u \in Users :
       Scores(c, u)
         => LET log == games[active_games[c]].wrong_guessers
                d == Ledger(daily_data, c)
                after == Ledger(daily_data', c)
                fresh == {i \in DOMAIN log : log[i][2] <= 2}
                steal == log # <<>> /\ ~FGet(d.steal_used, u, FALSE) /\ fresh # {}
                victim == log[CHOOSE i \in fresh : \A j \in fresh : i <= j][1]
            IN IF steal
               THEN /\ victim # u
                    /\ Get(after.leaderboard, victim, 0) = Get(d.leaderboard, victim, 0) - 10
                    /\ Get(games'[active_games[c]].game_leaderboard, victim, 0)
                         = Get(games[active_games[c]].game_leaderboard, victim, 0) - 10
                    /\ victim \in DOMAIN after.streaks /\ after.streaks[victim] = 0
                    /\ FGet(after.steal_used, u, FALSE)
                    /\ \A w \in Users \ {u, victim} : Untouched(c, w)
               ELSE /\ \A w \in Users \ {u} : Untouched(c, w)
                    /\ FGet(after.steal_used, u, FALSE) = FGet(d.steal_used, u, FALSE)]_vars

\* A steal passed over a stale entry: user 1's wrong guess, first in the log,
\* is more than 2 seconds old and user 1 lost nothing; user 3's, second in the
\* log, is fresh and user 3 lost a point to user 2.
C4_Witness ==
  \E c \in DOMAIN active_games :
    LET game == games[active_games[c]]
    IN /\ Len(game.wrong_guessers) = 2
       /\ game.wrong_guessers[1][1] = 1 /\ game.wrong_guessers[1][2] > 2
       /\ game.wrong_guessers[2][1] = 3 /\ game.wrong_guessers[2][2] <= 2
       /\ FGet(daily_data[c].steal_used, 2, FALSE)
       /\ Get(daily_data[c].leaderboard, 3, 0) = -10
       /\ Get(daily_data[c].leaderboard, 1, 0) = 0
       /\ Get(daily_data[c].leaderboard, 2, 0) > 0

PolicyPoints(h, t, k) ==
  LET table == <<10, 8, 6, 4, 2>>
      basis == IF h \in 1..5 THEN table[h] ELSE 0
      bonus == IF t <= 500 THEN 1 ELSE 0
  IN IF k >= 3 THEN (basis + bonus) * 12
     ELSE IF k = 2 THEN (basis + bonus) * 11
     ELSE (basis + bonus) * 10

CleanRun(g, u) ==
  /\ games[g].total_questions = 3
  /\ \A other \in DOMAIN games : games[other].group_id = games[g].group_id => other = g
  /\ guess_log[g] # <<>>
  /\ guess_log[g][1].streak = 1
  /\ \A i \in DOMAIN guess_log[g] :
       /\ guess_log[g][i].user = u
       /\ guess_log[g][i].correct
       /\ guess_log[g][i].question_num = i
       /\ guess_log[g][i].hint = 1
       /\ guess_log[g][i].time_taken <= 5

\* C7: in a three-question game, the only one of its chat, in which one user
\* alone answers every question at hint 1 within 5 seconds, starting from
\* streak 0, the answers score 11.0, 12.1 and 13.2 points; there is no fourth
\* question; once the
\* third is answered the game is either announced complete or a coroutine is
\* still on its way to announce it; and the completion names the user with
\* 36.3 points and leaves the chat without a registered game.
C7_ThreeQuestionRun ==
  \A g \in DOMAIN games, u \in Users :
    CleanRun(g, u)
      => /\ Len(guess_log[g]) <= 3
         /\ games[g].current_question_num <= 3
         /\ \A i \in DOMAIN guess_log[g] : guess_log[g][i].points = <<110, 121, 132>>[i]
         /\ (Len(guess_log[g]) = 3 /\ completions[g].sent)
              => /\ completions[g].winner = u
                 /\ completions[g].points = 363
                 /\ \A c \in DOMAIN active_games : active_games[c] # g
         /\ Len(guess_log[g]) = 3
              => \/ completions[g].sent
                 \/ \E t \in DOMAIN tasks :
                      /\ tasks[t].game = g
                      /\ tasks[t].pc \in {"cg_send", "cg_pause", "cg_ms", "eg_send"}

\* A three-question game of user 1 alone, answered at hint 1 each time, was
\* announced complete with user 1 the winner.
C7_Witness ==
  \E g \in DOMAIN games :
    /\ CleanRun(g, 1)
    /\ Len(guess_log[g]) = 3
    /\ completions[g].sent
    /\ completions[g].winner = 1

\* The position in its game of the question a logged guess was evaluated
\* against: the first question is the one the game holds from its registration
\* on, while current_question_num is still 0 and once it is 1.
QuestionOf(entry) == IF entry.question_num = 0 THEN 1 ELSE entry.question_num

\* C11: against one game, no user is sent the near-miss reply twice for the
\* same question.
C11_NearMissOnce ==
  \A g \in DOMAIN guess_log :
    \A i, j \in DOMAIN guess_log[g] :
      (/\ i < j
       /\ guess_log[g][i].near /\ guess_log[g][j].near
       /\ guess_log[g][i].user = guess_log[g][j].user)
        => QuestionOf(guess_log[g][i]) # QuestionOf(guess_log[g][j])

\* The thresholds recorded for user u in the ledger of chat c.
Reached(daily, c, u) ==
  IF c \in DOMAIN daily /\ u \in DOMAIN daily[c].milestones_reached
  THEN daily[c].milestones_reached[u]
  ELSE {}

\* The step is one in which task self starts sending a milestone message.
Announces(self) == tasks'[self].pc = "cg_ms" /\ tasks'[self] # tasks[self]

TimeoutStep(self) ==
  /\ tasks'[self] # tasks[self]
  /\ tasks'[self].pc = "na_send" \/ tasks[self].pc \in {"na_send", "na_pause"}

\* What a ledger records of the users' scores.
ScoreFields(d) ==
  <<d.leaderboard, d.streaks, d.steal_used, d.fastest_guesses, d.total_correct>>

\* C13: no step of the timeout path changes any user's daily points, streak,
\* steal flag, fastest time or correct count in any ledger, or any game's
\* points.
C13_TimeoutKeepsScores ==
  [][(\E self \in DOMAIN tasks : TimeoutStep(self))
       => /\ \A c \in DOMAIN daily_data :
               /\ c \in DOMAIN daily_data'
               /\ ScoreFields(daily_data'[c]) = ScoreFields(daily_data[c])
          /\ \A g \in DOMAIN games :
               games'[g].game_leaderboard = games[g].game_leaderboard]_vars

\* A question timed out in a chat whose ledger holds a user's points and
\* streak.
C13_Witness ==
  \E c \in DOMAIN active_games :
    /\ games[active_games[c]].answered
    /\ games[active_games[c]].current_hint > MAX_HINTS
    /\ daily_data[c].leaderboard # <<>>
    /\ \E u \in DOMAIN daily_data[c].streaks : daily_data[c].streaks[u] > 0

\* The position of entry e in the point map d.
Position(d, e) == CHOOSE k \in DOMAIN d : d[k] = e

\* How many entries a view lists at most.
ViewSize(view) == IF view = "game" THEN 5 ELSE IF view = "daily" THEN 10 ELSE 3

\* C14: each leaderboard message lists entries of the point map, none twice,
\* in non-increasing order of points, entries of equal points in the order of
\* their insertion into the map; it lists min(N, size of the map) entries (N
\* is 5 in a game, 10 for the day, 3 at the end of a game), and no entry left
\* out ranks before a listed one; the winner named at the end of a game is the
\* first entry of the ranking.
C14_Ranking ==
  calc.done
    => LET d == calc.board
           out == calc.out
           Before(a, b) == a[2] > b[2] \/ (a[2] = b[2] /\ Position(d, a) < Position(d, b))
       IN /\ \A i \in DOMAIN out : \E k \in DOMAIN d : d[k] = out[i]
          /\ \A i, j \in DOMAIN out : i < j => Before(out[i], out[j])
          /\ Len(out) = (IF Len(d) < ViewSize(calc.view) THEN Len(d) ELSE ViewSize(calc.view))
          /\ \A k \in DOMAIN d :
               (\A i \in DOMAIN out : out[i] # d[k])
                 => \A i \in DOMAIN out : Before(out[i], d[k])
          /\ calc.winner \in {d[k] : k \in DOMAIN d}
          /\ \A k \in DOMAIN d : d[k] # calc.winner => Before(calc.winner, d[k])
          /\ calc.view = "final" => calc.winner = out[1]

\* The daily leaderboard of eleven users was listed: ten entries, the first
\* two of equal points, the user of the higher id, inserted first, on top.
C14_Witness ==
  /\ calc.done
  /\ calc.view = "daily"
  /\ Len(calc.board) = 11
  /\ Len(calc.out) = 10
  /\ calc.out[1][2] = calc.out[2][2]
  /\ calc.out[1][1] > calc.out[2][1]

\* C15: after the step in which daily_reset resets the ledgers, every ledger
\* is empty: used_words, leaderboard, streaks, steal_used, fastest_guesses,
\* total_correct, user_names and milestones_reached.
C15_ResetClearsLedger ==
  [][ResetStep
       => \A c \in DOMAIN daily_data' :
            /\ daily_data'[c].used_words = {}
            /\ daily_data'[c].leaderboard = <<>>
            /\ daily_data'[c].streaks = EmptyMap
            /\ daily_data'[c].steal_used = EmptyMap
            /\ daily_data'[c].fastest_guesses = EmptyMap
            /\ daily_data'[c].total_correct = EmptyMap
            /\ daily_data'[c].user_names = EmptyMap
            /\ daily_data'[c].milestones_reached = EmptyMap]_vars

\* C16: a send that fails leaves the state the send that succeeds leaves: when
\* the result message of a correct guess fails, the game is marked answered
\* and its countdown is cancelled; when a hint message fails, the game has a
\* live countdown.
C16_FailedSendCommits ==
  [][\A self \in DOMAIN tasks :
       SendFails(self)
         => LET g == tasks[self].game
                timer == games[g].timer_task
            IN /\ tasks[self].pc = "cg_send"
                    => /\ games'[g].answered
                       /\ timer \in DOMAIN tasks => tasks'[timer].pc = "free"
               /\ tasks[self].pc = "sh_send"
                    => /\ games'[g].timer_task \in DOMAIN tasks
                       /\ tasks'[games'[g].timer_task].pc \in {"t_new", "t_wait"}]_vars

\* The streak the ledger of chat c holds for user u, 0 when it holds none.
StreakOf(daily, c, u) == FGet(Ledger(daily, c).streaks, u, 0)

\* The step is one in which a message of user u is evaluated as a guess.
Guesses(u) == msgs'[u] = msgs[u] + 1

\* The step is one in which user u loses a point to the steal of another user
\* who resolves the question of chat c.
StolenFrom(c, u) ==
  /\ \E v \in Users \ {u} : Scores(c, v)
  /\ Get(Ledger(daily_data', c).leaderboard, u, 0)
       = Get(Ledger(daily_data, c).leaderboard, u, 0) - 10

\* C17: an evaluated correct guess of a user sets the user's streak to its
\* value before plus 1 (0 when the ledger holds none), an evaluated wrong guess
\* sets it to 0, and no step changes a user's streak but an evaluated guess of
\* the user, a steal from the user and the daily reset.
C17_Streaks ==
  [][\A c \in Chats, u \in Users :
       /\ \A m \in MessageTexts :
            (Guesses(u) /\ HandleMessage(c, u, m))
              => StreakOf(daily_data', c, u)
                   = (IF IsCorrect(games[active_games[c]], m)
                      THEN StreakOf(daily_data, c, u) + 1
                      ELSE 0)
       /\ StreakOf(daily_data', c, u) # StreakOf(daily_data, c, u)
            => Guesses(u) \/ StolenFrom(c, u) \/ ResetStep]_vars

\* C18: every question of every game is resolved at most once: no two
\* evaluated guesses of a game are awarded points for the same question, and
\* no question is resolved by a timeout as well as by a guess: a game with a
\* handler on its way from a correct guess has no timeout handler on its way.
C18_ResolvedOnce ==
  /\ \A g \in DOMAIN guess_log : \A i, j \in DOMAIN guess_log[g] :
       (i < j /\ guess_log[g][i].correct /\ guess_log[g][j].correct)
         => QuestionOf(guess_log[g][i]) # QuestionOf(guess_log[g][j])
  /\ \A s, t \in DOMAIN tasks :
       (/\ tasks[s].pc \in {"cg_send", "cg_pause", "cg_ms"}
        /\ tasks[t].pc \in {"na_send", "na_pause"})
         => tasks[s].game # tasks[t].game

\* The pending countdowns of chat c: the update_hint_timer tasks that passed
\* the checks of lines 415-417 and sleep in their window.
Countdowns(c) ==
  {t \in DOMAIN tasks : tasks[t].pc = "t_wait" /\ tasks[t].chat = c}

\* C19: every chat has at most one pending countdown, and the countdown it has
\* is the timer_task of the game registered for the chat; a game that was
\* replaced or discarded has none.
C19_OneCountdown ==
  \A c \in Chats :
    /\ Cardinality(Countdowns(c)) <= 1
    /\ \A t \in Countdowns(c) :
         /\ c \in DOMAIN active_games
         /\ games[active_games[c]].timer_task = t

\* The task holds a game that is no longer the registered game of its chat:
\* the game was stopped or has completed.
Orphaned(self) ==
  /\ tasks[self].game # NoGame
  /\ tasks[self].pc \in {"t_wait", "na_send", "na_pause", "cg_send", "cg_pause", "cg_ms"}
  /\ \/ tasks[self].chat \notin DOMAIN active_games
     \/ active_games[tasks[self].chat] # tasks[self].game

\* The step is a step of task self.
Runs(self) ==
  \/ TimerCheckpoint(self) \/ TimerExpire(self)
  \/ NoAnswerSent(self) \/ NoAnswerAdvance(self)
  \/ ResultSent(self) \/ Milestones(self)

\* C20: the work of a game that was stopped or has completed, a countdown
\* that fires or the continuation of a resolution after its pause, changes
\* neither the registry nor any other game: a game started in the chat since
\* keeps its question, question number, hint number and timer.
C20_NoOrphanedWork ==
  [][\A self \in DOMAIN tasks :
       (Orphaned(self) /\ Runs(self))
         => /\ active_games' = active_games
            /\ DOMAIN games' = DOMAIN games
            /\ \A g \in DOMAIN games \ {tasks[self].game} : games'[g] = games[g]]_vars

\* C21: when the handler of a correct guess comes out of its pauses, or out
\* of the send of a milestone message, and its game is still the registered
\* game of the chat, it goes on: to a further milestone message, into the next
\* question or into the end of the game.
C21_AdvancesAfterGuess ==
  [][\A self \in DOMAIN tasks :
       (/\ tasks[self].pc \in {"cg_pause", "cg_ms"}
        /\ Milestones(self)
        /\ tasks[self].chat \in DOMAIN active_games
        /\ active_games[tasks[self].chat] = tasks[self].game)
         => tasks'[self].pc \in {"cg_ms", "sq_wait", "eg_send"}]_vars

\* The step is the expiry of a countdown of game g.
WindowExpires(g) ==
  \E self \in DOMAIN tasks :
    tasks[self].pc = "t_wait" /\ tasks[self].game = g /\ TimerExpire(self)

\* C22: the hint number of a game changes only by going back to 0 when the
\* next question starts after a resolution, or by growing by 1, from 0 when
\* the first window of a question opens and from 1..5 when a countdown of the
\* game expires on an open question; the window that opens has no first
\* message and no wrong guess recorded; and the category is marked revealed
\* exactly while the hint number is 3 or more.
C22_HintSequence ==
  [][\A g \in DOMAIN games :
       /\ games'[g].current_hint # games[g].current_hint
            => \/ /\ games'[g].current_hint = 0
                  /\ games[g].answered
                  /\ games'[g].current_question_num = games[g].current_question_num + 1
               \/ /\ games'[g].current_hint = games[g].current_hint + 1
                  /\ games[g].current_hint <= MAX_HINTS
                  /\ ~games[g].answered
                  /\ games[g].current_hint = 0 \/ WindowExpires(g)
                  /\ games'[g].first_messages = {}
                  /\ games'[g].wrong_guessers = <<>>
       /\ games'[g].category_revealed <=> games'[g].current_hint >= 3]_vars

\* C23: the question number of a game never passes its number of questions;
\* a game completes on its last question, or earlier when no unused question
\* is left for its chat, and the completion removes the chat from the
\* registry.
C23_QuestionCount ==
  [][/\ \A g \in DOMAIN games' :
          games'[g].current_question_num <= games'[g].total_questions
     /\ \A self \in DOMAIN tasks :
          EndGameFinish(self)
            => /\ \/ games[tasks[self].game].current_question_num
                       = games[tasks[self].game].total_questions
                  \/ Available(daily_data, tasks[self].chat) = {}
               /\ tasks[self].chat \notin DOMAIN active_games']_vars

\* The step is the one in which the daily_reset job returns.
JobReturns == reset_pc'.pc = "idle" /\ (reset_pc.pc = "posting" \/ resets' # resets)

\* C24: when the daily_reset job starts and a ledger has points, it posts
\* results with every ledger as it was; and when the job returns, every
\* ledger is cleared of its words, points, streaks, steal flags, fastest
\* times, correct counts and milestones.
C24_ResetCompletes ==
  [][/\ (resets' # resets /\ \E c \in DOMAIN daily_data : daily_data[c].leaderboard # <<>>)
          => (reset_pc'.pc = "posting" /\ daily_data' = daily_data)
     /\ JobReturns
          => \A c \in DOMAIN daily_data' :
               [daily_data'[c] EXCEPT !.user_names = EmptyMap] = DailyData]_vars

\* The users recorded in the wrong-guess log of a game.
WrongUsers(game) == {game.wrong_guessers[i][1] : i \in DOMAIN game.wrong_guessers}

\* C25: every user in the wrong-guess log of a game has a first message
\* recorded in the game's window; a user who resolves a question is not in the
\* log of the window, and the user a steal takes the point from is another
\* user.
C25_VictimIsAnother ==
  [][/\ \A g \in DOMAIN games' : WrongUsers(games'[g]) \subseteq games'[g].first_messages
     /\ \A c \in Chats, u \in Users :
          Scores(c, u)
            => /\ u \notin WrongUsers(games[active_games[c]])
               /\ StealVictim(games[active_games[c]].wrong_guessers,
                              Ledger(daily_data, c).steal_used, u) # u]_vars

\* User 2 resolved a question in a window in which user 1 had guessed wrong,
\* and took a point from user 1: both have their first message recorded, only
\* user 1 is in the log.
C25_Witness ==
  \E c \in DOMAIN active_games :
    LET game == games[active_games[c]]
    IN /\ WrongUsers(game) = {1}
       /\ game.first_messages = {1, 2}
       /\ steals_today[2] = 1
       /\ Get(daily_data[c].leaderboard, 1, 0) = -10
       /\ Get(game.game_leaderboard, 2, 0) > 0

\* C26: a message is evaluated as a guess only inside a hint window: in the
\* step that evaluates it the game of the chat is at one of its hints 1 to 5
\* and the start time of that hint is set.
C26_GuessInsideWindow ==
  [][\A c \in DOMAIN active_games, u \in Users :
       (Guesses(u) /\ \E m \in MessageTexts : HandleMessage(c, u, m))
         => /\ games[active_games[c]].current_hint \in 1..MAX_HINTS
            /\ games[active_games[c]].hint_elapsed # NoTime]_vars

====
